---- MODULE Spec2Model ----
(***************************************************************************)
(* Parametric EQ visualizer: the ParametricEQ component (drag handlers,    *)
(* throttled write-back of the internal working copy to the v-model, the   *)
(* filter-response math) and the throttle utility.                         *)
(*                                                                         *)
(* Numbers.  JavaScript Numbers are modelled as exact rationals            *)
(* [n |-> numerator, d |-> denominator > 0] in lowest terms, i.e. the      *)
(* arithmetic is that of the reals; IEEE rounding is not modelled.         *)
(*                                                                         *)
(* Pixels.  The vertical scale is linear and is computed exactly.  The     *)
(* horizontal scale is d3.scaleLog (a library bijection between positive   *)
(* frequencies and pixel columns whose values are irrational); a pixel     *)
(* column is written [at |-> f, off |-> k]: k pixels to the right of the   *)
(* column at which the log axis reads frequency f.                         *)
(*                                                                         *)
(* Scheduling.  DOM events and timer callbacks are tasks that run one at a *)
(* time; Vue runs the watcher of the v-model in the microtask flush that   *)
(* follows the task which changed it, before any other task.  One pointer  *)
(* drives at most one d3 drag gesture at a time.                           *)
(***************************************************************************)
EXTENDS Integers, Sequences, FiniteSets, Bags, TLC

VARIABLES
  filters,          \* the v-model: the parent's filter array (external state)
  internalFilters,  \* the component's working copy
  selectedId,       \* prop
  isDragging,       \* ref(false)
  gesture,          \* d3-drag's active gesture: "none", "main", "q0", "q1"
  inThrottle,       \* closure variable of throttle()
  timer,            \* ms until the pending setTimeout callback is due; -1: none
  watchPending,     \* the watcher of `filters` is queued for the next flush
  handles,          \* attributes set by updateHandles, or NoHandles
  curves,           \* data bound to the curve paths by updateCurves
  tooltipShown,     \* tooltip.style('display') = 'block'
  lastOp,           \* history: the handler that ran last
  lastEvent,        \* history: the pointer position that handler was given
  stepWrites,       \* history: assignments to the v-model made by that handler
  sinceWrite,       \* history: ms since the last throttled write, capped
  burst,            \* history: "none", or the drag-move events of the current
                    \* drag so far: "open" (none yet), "first", "later"
  probe,            \* the last direct application of a function: its inputs
  answer            \* and its result

vars == <<filters, internalFilters, selectedId, isDragging, gesture, inThrottle,
          timer, watchPending, handles, curves, tooltipShown, lastOp,
          lastEvent, stepWrites, sinceWrite, burst, probe, answer>>

mainVars == <<filters, internalFilters, selectedId, isDragging, gesture,
              inThrottle, timer, watchPending, handles, curves, tooltipShown,
              lastOp, lastEvent, stepWrites, sinceWrite, burst>>

-----------------------------------------------------------------------------
(* Exact rational arithmetic *)

Abs(i) == IF i < 0 THEN -i ELSE i

RECURSIVE Gcd(_, _)
Gcd(a, b) == IF b = 0 THEN a ELSE Gcd(b, a % b)

Rat(n, d) ==
  LET s == IF d < 0 THEN -1 ELSE 1
      g == Gcd(Abs(n), Abs(d))
  IN [n |-> (s * n) \div g, d |-> (s * d) \div g]

Num(i) == [n |-> i, d |-> 1]

Add(a, b) == Rat(a.n * b.d + b.n * a.d, a.d * b.d)
Sub(a, b) == Rat(a.n * b.d - b.n * a.d, a.d * b.d)
Mul(a, b) == Rat(a.n * b.n, a.d * b.d)
Div(a, b) == Rat(a.n * b.d, a.d * b.n)
Lt(a, b) == a.n * b.d < b.n * a.d
Le(a, b) == a.n * b.d <= b.n * a.d

MathMax(a, b) == IF Lt(a, b) THEN b ELSE a
MathMin(a, b) == IF Lt(b, a) THEN b ELSE a

NoProbe == [op |-> "none"]

-----------------------------------------------------------------------------
(* Program constants *)

ThrottleLimit == 50
Height == 400
MarginTop == 60
MarginBottom == 30
QHitHalfWidth == 12

innerHeight == Height - MarginTop - MarginBottom

-----------------------------------------------------------------------------
(* Scales *)

\* yScale = d3.scaleLinear().domain([-25, 25]).range([innerHeight, 0])
yScale(v) ==
  Add(Num(innerHeight),
      Mul(Div(Sub(v, Num(-25)), Sub(Num(25), Num(-25))),
          Sub(Num(0), Num(innerHeight))))

yScaleInvert(y) ==
  Add(Num(-25),
      Mul(Div(Sub(y, Num(innerHeight)), Sub(Num(0), Num(innerHeight))),
          Sub(Num(25), Num(-25))))

\* xScale = d3.scaleLog().domain([10, 20000]).range([0, innerWidth])
xScale(f) == [at |-> f, off |-> 0]

PxAdd(p, k) == [p EXCEPT !.off = @ + k]

\* Defined on the columns the frequency axis labels exactly.
xScaleInvert(p) == CASE p.off = 0 -> p.at

-----------------------------------------------------------------------------
(* Filter data *)

IsCustom(f) == f.type = "custom"

\* channels.left of the application
LeftChannel ==
  << [id |-> 1, type |-> "peaking", hz |-> Num(500), db |-> Rat(-9, 2),
      q |-> Rat(5, 2)],
     [id |-> 2, type |-> "low-shelf", hz |-> Num(120), db |-> Num(6),
      q |-> Rat(707, 1000)],
     [id |-> 3, type |-> "high-shelf", hz |-> Num(4000), db |-> Num(8),
      q |-> Rat(707, 1000)],
     [id |-> 4, type |-> "custom", b0 |-> Num(1), b1 |-> Rat(-192, 100),
      b2 |-> Rat(99, 100), a1 |-> Rat(-185, 100), a2 |-> Rat(95, 100)] >>

\* JSON.parse(JSON.stringify(value)): every field is a finite number, a string
\* or an id, each of which JSON reproduces; the result is a fresh array of
\* fresh objects with the same fields.
JsonCopy(value) == [i \in DOMAIN value |-> [k \in DOMAIN value[i] |-> value[i][k]]]

\* Index of internalFilters.value.find((f) => f.id === selectedId), 0: undefined
FindIndex(fs, id) ==
  IF \E i \in DOMAIN fs : fs[i].id = id
  THEN CHOOSE i \in DOMAIN fs : fs[i].id = id /\ \A j \in 1..(i - 1) : fs[j].id # id
  ELSE 0

selectedFilter(fs, id) == FindIndex(fs, id)

-----------------------------------------------------------------------------
(* Gains in dB.  A gain is [r |-> rational part, s |-> bag of terms]: the   *)
(* real number r plus the sum of the terms of s.  A term stands for a value *)
(* of log, exp or the biquad magnitude at a point where that value is not   *)
(* rational; it is kept unevaluated as [fn |-> ..., args |-> ...].          *)

Exact(r) == [r |-> r, s |-> EmptyBag]
Opaque(fn, args) == [r |-> Num(0), s |-> SetToBag({[fn |-> fn, args |-> args]})]
NegInfinity == Opaque("-Infinity", <<>>)

GainAdd(a, b) == [r |-> Add(a.r, b.r), s |-> a.s (+) b.s]

RECURSIVE IsPowerOf(_, _)
IsPowerOf(b, n) == n = 1 \/ (n > 1 /\ n % b = 0 /\ IsPowerOf(b, n \div b))

RECURSIVE IntLog(_, _)
IntLog(b, n) == IF n = 1 THEN 0 ELSE 1 + IntLog(b, n \div b)

\* log_b(r) is rational exactly when r is an integer power of b
HasExactLog(b, r) ==
  \/ r.d = 1 /\ r.n >= 1 /\ IsPowerOf(b, r.n)
  \/ r.n = 1 /\ IsPowerOf(b, r.d)

ExactLog(b, r) == IF r.d = 1 THEN IntLog(b, r.n) ELSE -IntLog(b, r.d)

SAMPLE_RATE == 48000

\* Variant: the sign clamp is applied the wrong way round
getFilterGainPeakingFlipped(G, f0, Q, freq) ==
  IF Le(Q, Num(0)) THEN Exact(Num(0))
  ELSE IF HasExactLog(2, Div(freq, f0))
  THEN LET x == Mul(Num(ExactLog(2, Div(freq, f0))), Q)
           gain == Div(G, Add(Num(1), Mul(Num(4), Mul(x, x))))
       IN Exact(IF Lt(Num(0), G) THEN MathMin(Num(0), gain)
                ELSE MathMax(Num(0), gain))
  ELSE Opaque("peaking", <<G, Div(freq, f0), Q>>)

\* Variant: without the test of Q
getFilterGainPeakingNoGuard(G, f0, Q, freq) ==
  IF HasExactLog(2, Div(freq, f0))
  THEN LET x == Mul(Num(ExactLog(2, Div(freq, f0))), Q)
           gain == Div(G, Add(Num(1), Mul(Num(4), Mul(x, x))))
       IN Exact(IF Lt(Num(0), G) THEN MathMax(Num(0), gain)
                ELSE MathMin(Num(0), gain))
  ELSE Opaque("peaking", <<G, Div(freq, f0), Q>>)

getFilterGainPeaking(G, f0, Q, freq) ==
  IF Le(Q, Num(0)) THEN Exact(Num(0))
  ELSE IF HasExactLog(2, Div(freq, f0))
  THEN LET x == Mul(Num(ExactLog(2, Div(freq, f0))), Q)
           gain == Div(G, Add(Num(1), Mul(Num(4), Mul(x, x))))
       IN Exact(IF Lt(Num(0), G) THEN MathMax(Num(0), gain)
                ELSE MathMin(Num(0), gain))
  ELSE Opaque("peaking", <<G, Div(freq, f0), Q>>)

\* Math.exp at the one point where it is rational
ExpAtZero == Num(1)

\* Variant: the steepness offsets the log distance instead of scaling it
getFilterGainShelfOffset(type, sign, G, f0, Q, freq) ==
  LET steepness == Mul(Q, Num(5))
  IN IF ~HasExactLog(10, Div(freq, f0)) THEN Opaque(type, <<G, freq, f0, Q>>)
     ELSE LET normalizedFreq == Add(Num(ExactLog(10, Div(freq, f0))), steepness)
          IN IF Mul(Num(sign), normalizedFreq) = Num(0)
             THEN LET factor == Div(Num(1), Add(Num(1), ExpAtZero))
                  IN Exact(Mul(G, factor))
             ELSE Opaque(type, <<G, freq, f0, Q>>)

\* sign = 1: low-shelf, exp(normalizedFreq); sign = -1: high-shelf,
\* exp(-normalizedFreq)
getFilterGainShelf(type, sign, G, f0, Q, freq) ==
  LET steepness == Mul(Q, Num(5))
  IN IF ~HasExactLog(10, Div(freq, f0)) THEN Opaque(type, <<G, freq, f0, Q>>)
     ELSE LET normalizedFreq == Mul(Num(ExactLog(10, Div(freq, f0))), steepness)
          IN IF Mul(Num(sign), normalizedFreq) = Num(0)
             THEN LET factor == Div(Num(1), Add(Num(1), ExpAtZero))
                  IN Exact(Mul(G, factor))
             ELSE Opaque(type, <<G, freq, f0, Q>>)

\* The terms b1*cos(w), b2*cos(2w), ... vanish when the coefficient is 0;
\* otherwise cos and sin of w = 2*pi*freq/SAMPLE_RATE are kept unevaluated.
getFilterGainCustom(filter, freq) ==
  IF filter.b1 = Num(0) /\ filter.b2 = Num(0)
     /\ filter.a1 = Num(0) /\ filter.a2 = Num(0)
  THEN LET numReal == filter.b0
           magnitude == IF Lt(numReal, Num(0)) THEN Sub(Num(0), numReal)
                        ELSE numReal
       IN IF magnitude = Num(0) THEN NegInfinity
          ELSE IF HasExactLog(10, magnitude)
          THEN Exact(Mul(Num(20), Num(ExactLog(10, magnitude))))
          ELSE Opaque("custom", <<filter.b0, filter.b1, filter.b2, filter.a1,
                                  filter.a2, Rat(freq.n, freq.d * SAMPLE_RATE)>>)
  ELSE Opaque("custom", <<filter.b0, filter.b1, filter.b2, filter.a1,
                          filter.a2, Rat(freq.n, freq.d * SAMPLE_RATE)>>)

getFilterGain(filter, freq) ==
  CASE filter.type = "peaking" ->
         getFilterGainPeaking(filter.db, filter.hz, filter.q, freq)
    [] filter.type = "low-shelf" ->
         getFilterGainShelf("low-shelf", 1, filter.db, filter.hz, filter.q, freq)
    [] filter.type = "high-shelf" ->
         getFilterGainShelf("high-shelf", -1, filter.db, filter.hz, filter.q, freq)
    [] filter.type = "custom" -> getFilterGainCustom(filter, freq)
    [] OTHER -> Exact(Num(0))

\* fs.reduce((total, filter) => total + getFilterGain(filter, freq), 0),
\* the fold having reached index i with accumulator total
RECURSIVE reduceGain(_, _, _, _)
reduceGain(fs, freq, i, total) ==
  IF i > Len(fs) THEN total
  ELSE reduceGain(fs, freq, i + 1, GainAdd(total, getFilterGain(fs[i], freq)))

\* Variant: the fold starts at the second filter
getTotalGainSkipFirst(fs, freq) == reduceGain(fs, freq, 2, Exact(Num(0)))

getTotalGain(fs, freq) == reduceGain(fs, freq, 1, Exact(Num(0)))

\* Frequencies of the pixel columns at which the curves are sampled
SampleFreqs == { Num(10), Num(1000), Num(2000) }

updateCurves(fs, id) ==
  LET i == selectedFilter(fs, id)
  IN [total |-> [f \in SampleFreqs |-> getTotalGain(fs, f)],
      selected |-> IF i # 0
                   THEN [f \in SampleFreqs |-> getFilterGain(fs[i], f)]
                   ELSE [f \in {} |-> f]]

-----------------------------------------------------------------------------
(* Handles *)

NoHandles == [shown |-> FALSE]

\* Variant: the shelf gain is not halved for display
handleYValueFull(sf) == sf.db

handleYValue(sf) == IF sf.type = "peaking" THEN sf.db ELSE Div(sf.db, Num(2))

\* Variant: the spread of the Q handles grows with q instead of with 1/q
qPositionsLinear(sf) ==
  LET symmetryFactor == Add(Num(1), sf.q)
  IN << Div(sf.hz, symmetryFactor), Mul(sf.hz, symmetryFactor) >>

qPositions(sf) ==
  LET symmetryFactor == Add(Num(1), Div(Num(1), sf.q))
  IN << Div(sf.hz, symmetryFactor), Mul(sf.hz, symmetryFactor) >>

updateHandles(sf) ==
  LET yPos == yScale(handleYValue(sf))
      qp == qPositions(sf)
  IN [shown |-> TRUE,
      cx |-> xScale(sf.hz),
      cy |-> yPos,
      qLine |-> << xScale(qp[1]), xScale(qp[2]) >>,
      qHit |-> << PxAdd(xScale(qp[1]), -QHitHalfWidth),
                  PxAdd(xScale(qp[2]), -QHitHalfWidth) >>]

\* drawChart: the handles exist for a selected filter that is not custom
drawChart(fs, id) ==
  LET i == selectedFilter(fs, id)
  IN IF i # 0 /\ ~IsCustom(fs[i]) THEN updateHandles(fs[i]) ELSE NoHandles

-----------------------------------------------------------------------------
(* Throttle *)

\* Variant: the returned function does not test inThrottle
throttledFiltersUpdateUnguarded(value) ==
  /\ filters' = JsonCopy(value)
  /\ watchPending' = TRUE
  /\ inThrottle' = TRUE
  /\ timer' = ThrottleLimit
  /\ stepWrites' = 1
  /\ sinceWrite' = 0

\* Variant: a debounce-like wrapper that only arms the timer on the first call
throttledFiltersUpdateDelayed(value) ==
  IF ~inThrottle
  THEN /\ inThrottle' = TRUE
       /\ timer' = ThrottleLimit
       /\ stepWrites' = 0
       /\ UNCHANGED <<filters, watchPending, sinceWrite>>
  ELSE /\ UNCHANGED <<filters, watchPending, inThrottle, timer, sinceWrite>>
       /\ stepWrites' = 0

\* The function returned by throttle(func, 50) applied to `value`, with
\* func = (value) => { filters.value = JSON.parse(JSON.stringify(value)) }
throttledFiltersUpdate(value) ==
  IF ~inThrottle
  THEN /\ filters' = JsonCopy(value)
       /\ watchPending' = TRUE
       /\ inThrottle' = TRUE
       /\ timer' = ThrottleLimit
       /\ stepWrites' = 1
       /\ sinceWrite' = 0
  ELSE /\ UNCHANGED <<filters, watchPending, inThrottle, timer, sinceWrite>>
       /\ stepWrites' = 0

\* Variant: a trailing-edge throttle, whose timer delivers the latest value
TimerFireTrailing ==
  /\ ~watchPending
  /\ timer = 0
  /\ inThrottle' = FALSE
  /\ timer' = -1
  /\ filters' = JsonCopy(internalFilters)
  /\ watchPending' = TRUE
  /\ lastOp' = "timer"
  /\ UNCHANGED <<probe, answer>>
  /\ lastEvent' = <<>>
  /\ stepWrites' = 1
  /\ UNCHANGED <<internalFilters, selectedId, isDragging, gesture, handles,
                 curves, tooltipShown, sinceWrite, burst>>

\* setTimeout(() => (inThrottle = false), limit)
TimerFire ==
  /\ ~watchPending
  /\ timer = 0
  /\ inThrottle' = FALSE
  /\ timer' = -1
  /\ lastOp' = "timer"
  /\ UNCHANGED <<probe, answer>>
  /\ UNCHANGED burst
  /\ lastEvent' = <<>>
  /\ stepWrites' = 0
  /\ UNCHANGED <<filters, internalFilters, selectedId, isDragging, gesture,
                 watchPending, handles, curves, tooltipShown, sinceWrite>>

-----------------------------------------------------------------------------
(* Inputs *)

\* Pointer positions of main-handle drags: <<frequency under the pointer, row>>
DragPoints ==
  { << Num(5), Num(-31) >>,
    << Num(1000), Rat(589, 5) >>,
    << Num(2000), Num(31) >>,
    << Num(30000), Num(341) >> }

\* Frequencies under the pointer in Q-handle drags
QDragFreqs == { Num(5), Num(1500), Num(2000) }

TickSteps == { 25 }

-----------------------------------------------------------------------------
(* Drag handlers *)

Idle == ~watchPending /\ gesture = "none"

handleDragStart ==
  /\ Idle
  /\ handles.shown
  /\ gesture' = "main"
  /\ isDragging' = TRUE
  /\ tooltipShown' = TRUE
  /\ lastOp' = "start"
  /\ UNCHANGED <<probe, answer>>
  /\ burst' = "open"
  /\ lastEvent' = <<>>
  /\ stepWrites' = 0
  /\ UNCHANGED <<filters, internalFilters, selectedId, inThrottle, timer,
                 watchPending, handles, curves, sinceWrite>>

\* Variant: the frequency is applied as dragged, without the clamp
handleDragApplyUnclamped(sf, x, y) ==
  LET hz == xScaleInvert(x)
      draggedDb == yScaleInvert(y)
      db == IF sf.type = "peaking"
            THEN MathMax(Num(-25), MathMin(Num(25), draggedDb))
            ELSE LET fullGain == Mul(draggedDb, Num(2))
                 IN MathMax(Num(-25), MathMin(Num(25), fullGain))
  IN [sf EXCEPT !.hz = hz, !.db = db]

\* The filter after the 'drag' handler of handleDrag ran for event (x, y)
handleDragApply(sf, x, y) ==
  LET hz == MathMax(Num(20), MathMin(Num(20000), xScaleInvert(x)))
      draggedDb == yScaleInvert(y)
      db == IF sf.type = "peaking"
            THEN MathMax(Num(-25), MathMin(Num(25), draggedDb))
            ELSE LET fullGain == Mul(draggedDb, Num(2))
                 IN MathMax(Num(-25), MathMin(Num(25), fullGain))
  IN [sf EXCEPT !.hz = hz, !.db = db]

handleDragDrag(x, y) ==
  /\ ~watchPending
  /\ gesture = "main"
  /\ LET i == selectedFilter(internalFilters, selectedId)
         sf == handleDragApply(internalFilters[i], x, y)
     IN /\ internalFilters' = [internalFilters EXCEPT ![i] = sf]
        /\ handles' = updateHandles(sf)
        /\ curves' = updateCurves(internalFilters', selectedId)
  /\ throttledFiltersUpdate(internalFilters')
  /\ lastOp' = "drag"
  /\ UNCHANGED <<probe, answer>>
  /\ burst' = (IF burst = "open" THEN "first" ELSE "later")
  /\ lastEvent' = <<x, y>>
  /\ UNCHANGED <<selectedId, isDragging, gesture, tooltipShown>>

\* Variant: the 'end' handler writes through the throttled function
handleDragEndThrottled ==
  /\ ~watchPending
  /\ gesture = "main"
  /\ gesture' = "none"
  /\ isDragging' = FALSE
  /\ throttledFiltersUpdate(internalFilters)
  /\ tooltipShown' = FALSE
  /\ lastOp' = "end"
  /\ UNCHANGED <<probe, answer>>
  /\ burst' = "none"
  /\ lastEvent' = <<>>
  /\ UNCHANGED <<internalFilters, selectedId, handles, curves>>

handleDragEnd ==
  /\ ~watchPending
  /\ gesture = "main"
  /\ gesture' = "none"
  /\ isDragging' = FALSE
  /\ filters' = internalFilters
  /\ watchPending' = TRUE
  /\ tooltipShown' = FALSE
  /\ lastOp' = "end"
  /\ UNCHANGED <<probe, answer>>
  /\ burst' = "none"
  /\ lastEvent' = <<>>
  /\ stepWrites' = 1
  /\ UNCHANGED <<internalFilters, selectedId, inThrottle, timer, handles,
                 curves, sinceWrite>>

qDragStart(d) ==
  /\ Idle
  /\ handles.shown
  /\ gesture' = IF d = 1 THEN "q1" ELSE "q0"
  /\ isDragging' = TRUE
  /\ tooltipShown' = TRUE
  /\ lastOp' = "qstart"
  /\ UNCHANGED <<probe, answer>>
  /\ burst' = "open"
  /\ lastEvent' = <<>>
  /\ stepWrites' = 0
  /\ UNCHANGED <<filters, internalFilters, selectedId, inThrottle, timer,
                 watchPending, handles, curves, sinceWrite>>

\* Variant: the Q drag also moves the center frequency to the pointer
qDragApplyMovesHz(sf, x, d) ==
  LET handleFreq == xScaleInvert(PxAdd(x, QHitHalfWidth))
      symmetryFactor ==
        IF d = 1
        THEN MathMax(Rat(1001, 1000), Div(handleFreq, sf.hz))
        ELSE MathMax(Rat(1001, 1000), Div(sf.hz, handleFreq))
      newQ == Div(Num(1), Sub(symmetryFactor, Num(1)))
  IN [sf EXCEPT !.q = MathMax(Rat(1, 10), MathMin(Num(20), newQ)),
                !.hz = MathMax(Num(20), MathMin(Num(20000), handleFreq))]

\* The filter after the 'drag' handler of qDrag ran for event x on handle d
qDragApply(sf, x, d) ==
  LET handleFreq == xScaleInvert(PxAdd(x, QHitHalfWidth))
      symmetryFactor ==
        IF d = 1
        THEN MathMax(Rat(1001, 1000), Div(handleFreq, sf.hz))
        ELSE MathMax(Rat(1001, 1000), Div(sf.hz, handleFreq))
      newQ == Div(Num(1), Sub(symmetryFactor, Num(1)))
  IN [sf EXCEPT !.q = MathMax(Rat(1, 10), MathMin(Num(20), newQ))]

qDragDrag(x, d) ==
  /\ ~watchPending
  /\ gesture = (IF d = 1 THEN "q1" ELSE "q0")
  /\ LET i == selectedFilter(internalFilters, selectedId)
         sf == qDragApply(internalFilters[i], x, d)
     IN /\ internalFilters' = [internalFilters EXCEPT ![i] = sf]
        /\ handles' = updateHandles(sf)
        /\ curves' = updateCurves(internalFilters', selectedId)
  /\ throttledFiltersUpdate(internalFilters')
  /\ lastOp' = "qdrag"
  /\ UNCHANGED <<probe, answer>>
  /\ burst' = (IF burst = "open" THEN "first" ELSE "later")
  /\ lastEvent' = <<x, d>>
  /\ UNCHANGED <<selectedId, isDragging, gesture, tooltipShown>>

qDragEnd ==
  /\ ~watchPending
  /\ gesture \in {"q0", "q1"}
  /\ gesture' = "none"
  /\ isDragging' = FALSE
  /\ filters' = internalFilters
  /\ watchPending' = TRUE
  /\ tooltipShown' = FALSE
  /\ lastOp' = "qend"
  /\ UNCHANGED <<probe, answer>>
  /\ burst' = "none"
  /\ lastEvent' = <<>>
  /\ stepWrites' = 1
  /\ UNCHANGED <<internalFilters, selectedId, inThrottle, timer, handles,
                 curves, sinceWrite>>

-----------------------------------------------------------------------------
(* Watcher of the v-model *)

\* Variant: the watcher without the test of isDragging
watchFiltersUnguarded ==
  /\ watchPending
  /\ watchPending' = FALSE
  /\ internalFilters' = JsonCopy(filters)
  /\ handles' = drawChart(internalFilters', selectedId)
  /\ curves' = updateCurves(internalFilters', selectedId)
  /\ lastOp' = "watch"
  /\ UNCHANGED <<probe, answer>>
  /\ UNCHANGED burst
  /\ lastEvent' = <<>>
  /\ stepWrites' = 0
  /\ UNCHANGED <<filters, selectedId, isDragging, gesture, inThrottle, timer,
                 tooltipShown, sinceWrite>>

watchFilters ==
  /\ watchPending
  /\ watchPending' = FALSE
  /\ IF isDragging
     THEN UNCHANGED <<internalFilters, handles, curves>>
     ELSE /\ internalFilters' = JsonCopy(filters)
          /\ handles' = drawChart(internalFilters', selectedId)
          /\ curves' = updateCurves(internalFilters', selectedId)
  /\ lastOp' = "watch"
  /\ UNCHANGED <<probe, answer>>
  /\ UNCHANGED burst
  /\ lastEvent' = <<>>
  /\ stepWrites' = 0
  /\ UNCHANGED <<filters, selectedId, isDragging, gesture, inThrottle, timer,
                 tooltipShown, sinceWrite>>

-----------------------------------------------------------------------------
(* Parent: coefficient inputs of a custom filter *)

\* What an <input type="number" v-model.number> hands over: a number, or the
\* empty string of a cleared field
CoeffInputs == { [isNumber |-> FALSE], [isNumber |-> TRUE, v |-> Num(0)] }

CoeffKeys == { "b0" }

\* validateCoeffs, for one key
validateCoeffs(typed) == IF typed.isNumber THEN typed.v ELSE Num(0)

coeffInput(i, key, typed) ==
  /\ ~watchPending
  /\ i \in DOMAIN filters
  /\ IsCustom(filters[i])
  /\ filters[i][key] # validateCoeffs(typed)
  /\ filters' = [filters EXCEPT ![i][key] = validateCoeffs(typed)]
  /\ watchPending' = TRUE
  /\ lastOp' = "input"
  /\ UNCHANGED <<probe, answer>>
  /\ UNCHANGED burst
  /\ lastEvent' = <<>>
  /\ stepWrites' = 0
  /\ UNCHANGED <<internalFilters, selectedId, isDragging, gesture, inThrottle,
                 timer, handles, curves, tooltipShown, sinceWrite>>

-----------------------------------------------------------------------------
(* Time *)

Tick(dt) ==
  /\ ~watchPending
  /\ timer > 0
  /\ timer' = IF timer > dt THEN timer - dt ELSE 0
  /\ sinceWrite' = IF sinceWrite + dt < ThrottleLimit THEN sinceWrite + dt
                   ELSE ThrottleLimit
  /\ lastOp' = "tick"
  /\ UNCHANGED <<probe, answer>>
  /\ UNCHANGED burst
  /\ lastEvent' = <<>>
  /\ stepWrites' = 0
  /\ UNCHANGED <<filters, internalFilters, selectedId, isDragging, gesture,
                 inThrottle, watchPending, handles, curves, tooltipShown>>

-----------------------------------------------------------------------------

Init ==
  /\ filters = LeftChannel
  /\ internalFilters = JsonCopy(filters)
  /\ selectedId \in {filters[i].id : i \in DOMAIN filters}
  /\ isDragging = FALSE
  /\ gesture = "none"
  /\ inThrottle = FALSE
  /\ timer = -1
  /\ watchPending = FALSE
  /\ handles = drawChart(internalFilters, selectedId)
  /\ curves = updateCurves(internalFilters, selectedId)
  /\ tooltipShown = FALSE
  /\ lastOp = "init"
  /\ lastEvent = <<>>
  /\ stepWrites = 0
  /\ sinceWrite = ThrottleLimit
  /\ burst = "none"
  /\ probe = NoProbe
  /\ answer = NoProbe

Next ==
  \/ handleDragStart
  \/ \E p \in DragPoints : handleDragDrag(xScale(p[1]), p[2])
  \/ handleDragEnd
  \/ \E d \in {0, 1} : qDragStart(d)
  \/ \E f \in QDragFreqs, d \in {0, 1} :
       qDragDrag(PxAdd(xScale(f), -QHitHalfWidth), d)
  \/ qDragEnd
  \/ watchFilters
  \/ \E i \in DOMAIN filters, key \in CoeffKeys, typed \in CoeffInputs :
       coeffInput(i, key, typed)
  \/ TimerFire
  \/ \E dt \in TickSteps : Tick(dt)

Spec == Init /\ [][Next]_vars

-----------------------------------------------------------------------------
(* Direct applications of the math functions to given inputs *)

MaxFilters == 3

Peaking(hz, db, q) == [id |-> 1, type |-> "peaking", hz |-> hz, db |-> db, q |-> q]

FilterPool ==
  { Peaking(Num(1000), Num(6), Num(1)),
    Peaking(Num(500), Rat(-9, 2), Rat(5, 2)),
    [id |-> 2, type |-> "low-shelf", hz |-> Num(100), db |-> Num(6),
     q |-> Rat(707, 1000)],
    [id |-> 3, type |-> "high-shelf", hz |-> Num(1000), db |-> Num(8),
     q |-> Rat(707, 1000)],
    [id |-> 4, type |-> "custom", b0 |-> Num(1), b1 |-> Num(0), b2 |-> Num(0),
     a1 |-> Num(0), a2 |-> Num(0)],
    LeftChannel[4] }

ProbeArrays == UNION { [1..n -> FilterPool] : n \in 0..MaxFilters }

ProbeFreqs == { Num(100), Num(500), Num(1000), Num(2000) }

ProbeDbs == { Num(-25), Rat(-9, 2), Num(0), Num(6), Num(25) }

ProbeQs == { Rat(1, 10), Rat(707, 1000), Num(1), Num(2), Rat(5, 2), Num(20) }

ProbeHzs == { Num(20), Num(500), Num(1000), Num(20000) }

ProbeFilters ==
  FilterPool \cup
  { Peaking(hz, db, q) : hz \in {Num(500), Num(1000)}, db \in ProbeDbs,
                         q \in ProbeQs }

Shelf(type, hz, db, q) == [id |-> 2, type |-> type, hz |-> hz, db |-> db, q |-> q]

ShelfQs == ProbeQs \cup { Num(0), Num(-1) }

ShelfFilters ==
  { Shelf(type, hz, db, q) : type \in {"low-shelf", "high-shelf"},
                             hz \in {Num(100), Num(1000)}, db \in ProbeDbs,
                             q \in ShelfQs }

\* Peaking filters with q <= 0, and filters whose type is none of the four
DegenerateFilters ==
  { Peaking(hz, db, q) : hz \in {Num(500), Num(1000)}, db \in ProbeDbs,
                         q \in {Num(0), Rat(-1, 2), Num(-1)} }
  \cup { [id |-> 5, type |-> "notch", hz |-> Num(1000), db |-> Num(6),
          q |-> Num(1)],
         [id |-> 6, type |-> "Peaking", hz |-> Num(1000), db |-> Num(6),
          q |-> Num(1)],
         [id |-> 7, type |-> ""] }

DegenerateFreqs == ProbeFreqs \cup { Num(0), Num(-100) }

ProbeTotalGain(fs, freq) ==
  /\ probe = NoProbe
  /\ probe' = [op |-> "getTotalGain", fs |-> fs, freq |-> freq]
  /\ answer' = getTotalGain(fs, freq)
  /\ UNCHANGED mainVars

ProbeFilterGain(filter, freq) ==
  /\ probe = NoProbe
  /\ probe' = [op |-> "getFilterGain", filter |-> filter, freq |-> freq]
  /\ answer' = getFilterGain(filter, freq)
  /\ UNCHANGED mainVars

\* updateHandles places the hit area of Q handle d; qDrag's 'drag' handler is
\* then given exactly that position
ProbeQRoundTrip(sf, d) ==
  /\ probe = NoProbe
  /\ probe' = [op |-> "qRoundTrip", sf |-> sf, d |-> d,
               x |-> updateHandles(sf).qHit[d + 1]]
  /\ answer' = qDragApply(sf, updateHandles(sf).qHit[d + 1], d)
  /\ UNCHANGED mainVars

\* qDrag's 'drag' handler for a handle dragged to frequency f
ProbeQDrag(sf, f, d) ==
  /\ probe = NoProbe
  /\ probe' = [op |-> "qDrag", sf |-> sf, d |-> d, f |-> f]
  /\ answer' = qDragApply(sf, PxAdd(xScale(f), -QHitHalfWidth), d)
  /\ UNCHANGED mainVars

InitMath == Init /\ selectedId = 1

NextMath ==
  \/ \E fs \in ProbeArrays, freq \in ProbeFreqs : ProbeTotalGain(fs, freq)
  \/ \E filter \in ProbeFilters, freq \in ProbeFreqs :
       ProbeFilterGain(filter, freq)
  \/ \E filter \in ShelfFilters, freq \in ProbeFreqs :
       ProbeFilterGain(filter, freq)
  \/ \E filter \in DegenerateFilters, freq \in DegenerateFreqs :
       ProbeFilterGain(filter, freq)
  \/ \E hz \in ProbeHzs, q \in ProbeQs, d \in {0, 1} :
       ProbeQRoundTrip(Peaking(hz, Num(6), q), d)
  \/ \E f \in QDragFreqs \cup {Num(2000)}, q \in ProbeQs, d \in {0, 1} :
       ProbeQDrag(Peaking(Num(1000), Num(6), q), f, d)

SpecMath == InitMath /\ [][NextMath]_vars

-----------------------------------------------------------------------------
(* Properties of the drag / throttle machine *)

Moves == {"drag", "qdrag"}
Ends == {"end", "qend"}
sel == selectedFilter(internalFilters, selectedId)

\* C1: while a drag is in progress the throttled function writes the v-model
\* at most once per 50 ms window: a drag-move handled while the window is open
\* leaves the v-model unchanged, the timer callback delivers nothing, and a
\* drag-move that does write comes at least 50 ms after the previous throttled
\* write.
C1_AtMostOncePerWindow ==
  [][ /\ (lastOp' \in Moves /\ inThrottle) =>
           (filters' = filters /\ stepWrites' = 0)
      /\ (lastOp' = "timer") => (filters' = filters /\ stepWrites' = 0)
      /\ (lastOp' \in Moves /\ stepWrites' > 0) =>
           (stepWrites' = 1 /\ sinceWrite >= ThrottleLimit) ]_vars

\* A drag-move was dropped: the working copy moved on, the v-model did not.
C1_Witness ==
  /\ lastOp \in Moves
  /\ stepWrites = 0
  /\ inThrottle
  /\ sinceWrite < ThrottleLimit
  /\ filters[sel] # internalFilters[sel]

\* C2: right after every drag-end (main handle or Q handle) the v-model holds
\* the values of the working copy, written by one unthrottled assignment,
\* whatever the state of the throttle window.
C2_DragEndFlushes ==
  lastOp \in Ends => (filters = internalFilters /\ stepWrites = 1)

\* A drag ended inside an open throttle window and its values were written.
C2_Witness ==
  /\ lastOp \in Ends
  /\ inThrottle
  /\ timer > 0
  /\ sinceWrite < ThrottleLimit
  /\ filters = internalFilters
  /\ internalFilters[sel].hz # LeftChannel[sel].hz

\* C3 as stated: in every drag the first drag-move is written to the v-model
\* at that same event.
C3_FirstMoveOfEveryDragWritten ==
  (lastOp \in Moves /\ burst = "first") =>
    (stepWrites = 1 /\ filters = internalFilters)

\* C3, amended: a drag-move handled while no throttle window is open is
\* written to the v-model at that same event and opens a 50 ms window; a
\* drag-move is suppressed only while a window is open, i.e. less than 50 ms
\* after a throttled write or before the timer callback has run.
C3_LeadingEdge ==
  [][ lastOp' \in Moves =>
        /\ ~inThrottle =>
             /\ stepWrites' = 1
             /\ filters' = internalFilters'
             /\ inThrottle'
             /\ timer' = ThrottleLimit
        /\ stepWrites' = 0 => (inThrottle /\ timer >= 0) ]_vars

\* The first drag-move of a drag was written at once.
C3_Witness ==
  /\ lastOp \in Moves
  /\ burst = "first"
  /\ stepWrites = 1
  /\ timer = ThrottleLimit
  /\ filters = internalFilters
  /\ internalFilters[sel] # LeftChannel[sel]

\* C4: the drag-end handler assigns the v-model exactly once, with the values
\* of the working copy, and no handler other than a drag-move or a drag-end
\* assigns it: the timer callback only clears inThrottle.
C4_ReconciledOnceAtDragEnd ==
  [][ /\ lastOp' \in Ends =>
           (stepWrites' = 1 /\ filters' = internalFilters)
      /\ lastOp' \in {"timer", "tick", "watch", "start", "qstart"} =>
           (stepWrites' = 0 /\ filters' = filters)
      /\ lastOp' = "input" => stepWrites' = 0 ]_vars

\* The timer ran out after a drag had ended, and wrote nothing.
C4_Witness ==
  /\ lastOp = "timer"
  /\ gesture = "none"
  /\ stepWrites = 0
  /\ ~inThrottle
  /\ filters = internalFilters
  /\ internalFilters[sel].hz # LeftChannel[sel].hz

InRange(f) ==
  /\ Le(Num(20), f.hz) /\ Le(f.hz, Num(20000))
  /\ Le(Num(-25), f.db) /\ Le(f.db, Num(25))
  /\ Le(Rat(1, 10), f.q) /\ Le(f.q, Num(20))

\* C5: every non-custom filter of the working copy and of the v-model has
\* hz in [20, 20000], db in [-25, 25] and q in [0.1, 20], whatever positions
\* the handles were dragged to.
C5_ParametersInRange ==
  \A i \in DOMAIN internalFilters :
    /\ ~IsCustom(internalFilters[i]) => InRange(internalFilters[i])
    /\ ~IsCustom(filters[i]) => InRange(filters[i])

\* The right Q handle was dragged to 5 Hz, left of a center frequency that an
\* earlier out-of-domain drag had clamped to 20 Hz.
C5_Witness ==
  /\ lastOp = "qdrag"
  /\ lastEvent = << PxAdd(xScale(Num(5)), -QHitHalfWidth), 1 >>
  /\ internalFilters[sel].hz = Num(20)
  /\ internalFilters[sel].db = Num(25)
  /\ internalFilters[sel].q = Num(20)

\* C6: a Q-handle drag-move changes nothing but q of the selected filter.
C6_QDragChangesOnlyQ ==
  [][ lastOp' = "qdrag" =>
        \A i \in DOMAIN internalFilters :
          IF i = sel
          THEN internalFilters'[i] = [internalFilters[i] EXCEPT
                                        !.q = internalFilters'[i].q]
          ELSE internalFilters'[i] = internalFilters[i] ]_vars

\* A Q drag changed q of the selected filter.
C6_Witness ==
  /\ lastOp = "qdrag"
  /\ internalFilters[sel].q # LeftChannel[sel].q
  /\ internalFilters[sel].hz = LeftChannel[sel].hz
  /\ internalFilters[sel].db = LeftChannel[sel].db

\* The values the inverse mappings compute before clamping
draggedHz == xScaleInvert(lastEvent[1])
draggedGain ==
  IF internalFilters[sel].type = "peaking" THEN yScaleInvert(lastEvent[2])
  ELSE Mul(yScaleInvert(lastEvent[2]), Num(2))
draggedFactor ==
  LET handleFreq == xScaleInvert(PxAdd(lastEvent[1], QHitHalfWidth))
  IN IF lastEvent[2] = 1 THEN Div(handleFreq, internalFilters[sel].hz)
     ELSE Div(internalFilters[sel].hz, handleFreq)

\* C7 as stated: after every drag-move the forward mapping puts the dragged
\* handle at the position it was dragged to.
C7_HandleWhereDragged ==
  /\ lastOp = "drag" =>
       (handles.cx = lastEvent[1] /\ handles.cy = lastEvent[2])
  /\ lastOp = "qdrag" => handles.qHit[lastEvent[2] + 1] = lastEvent[1]

\* C7, amended: the forward mapping puts the dragged handle at the position
\* it was dragged to in each coordinate whose inverse-mapped value needed no
\* clamping: the column when the frequency read there is in [20, 20000], the
\* row when the gain read there (doubled for a shelf) is in [-25, 25], the
\* column of a Q handle when the frequency ratio is at least 1.001 and the q
\* it gives is in [0.1, 20].
C7_HandleWhereDraggedUnlessClamped ==
  /\ lastOp = "drag" =>
       /\ (Le(Num(20), draggedHz) /\ Le(draggedHz, Num(20000))) =>
            handles.cx = lastEvent[1]
       /\ (Le(Num(-25), draggedGain) /\ Le(draggedGain, Num(25))) =>
            handles.cy = lastEvent[2]
  /\ lastOp = "qdrag" =>
       ((/\ Le(Rat(1001, 1000), draggedFactor)
         /\ Le(Rat(1, 10), Div(Num(1), Sub(draggedFactor, Num(1))))
         /\ Le(Div(Num(1), Sub(draggedFactor, Num(1))), Num(20))) =>
          handles.qHit[lastEvent[2] + 1] = lastEvent[1])

\* A shelf was dragged to 1000 Hz, 6 dB: db is 12 and the handle shows 6 dB.
C7_Witness ==
  /\ lastOp = "drag"
  /\ lastEvent = << xScale(Num(1000)), Rat(589, 5) >>
  /\ internalFilters[sel].type = "low-shelf"
  /\ internalFilters[sel].db = Num(12)
  /\ handles.cx = lastEvent[1]
  /\ handles.cy = lastEvent[2]

\* C13: while isDragging is set, a change of the v-model (the echo of a
\* throttled write-back, or an edit made by the parent) leaves the working
\* copy and what is drawn from it untouched; every drag-move applies its event
\* to the working copy and redraws the handles and the curves from it, whether
\* or not the write-back was let through; the working copy is replaced by a
\* copy of the v-model only by the watcher, and only while isDragging is clear.
C13_InternalCopyAuthoritative ==
  [][ /\ (isDragging /\ lastOp' \in {"watch", "input", "timer", "tick"}) =>
           /\ internalFilters' = internalFilters
           /\ handles' = handles
           /\ curves' = curves
      /\ lastOp' \in Moves =>
           /\ isDragging /\ isDragging'
           /\ internalFilters'[sel] =
                (IF lastOp' = "drag"
                 THEN handleDragApply(internalFilters[sel], lastEvent'[1],
                                      lastEvent'[2])
                 ELSE qDragApply(internalFilters[sel], lastEvent'[1],
                                 lastEvent'[2]))
           /\ \A i \in DOMAIN internalFilters :
                i # sel => internalFilters'[i] = internalFilters[i]
           /\ handles' = updateHandles(internalFilters'[sel])
           /\ curves' = updateCurves(internalFilters', selectedId)
      /\ (internalFilters' # internalFilters /\ lastOp' \notin Moves) =>
           /\ lastOp' = "watch"
           /\ ~isDragging
           /\ internalFilters' = filters ]_vars

\* During a drag the parent edited a coefficient; the watcher ran and the
\* working copy kept both its own coefficient and the dragged values that the
\* throttle had not let through.
C13_Witness ==
  /\ lastOp = "watch"
  /\ isDragging
  /\ inThrottle
  /\ filters[4].b0 # internalFilters[4].b0
  /\ internalFilters[4].b0 = LeftChannel[4].b0
  /\ filters[sel] # internalFilters[sel]
  /\ handles = updateHandles(internalFilters[sel])

-----------------------------------------------------------------------------
(* Properties of the math functions *)

\* C8: the hit area of each Q handle is placed at hz/(1+1/q) (left) and
\* hz*(1+1/q) (right), and the Q-drag mapping applied to a handle at exactly
\* that position gives back the filter with its q unchanged; with hz = 1000,
\* q = 2 the right handle dragged to 2000 Hz gives q = 1.
C8_QRoundTrip ==
  /\ probe.op = "qRoundTrip" =>
       LET spread == Add(Num(1), Div(Num(1), probe.sf.q))
           at == IF probe.d = 1 THEN Mul(probe.sf.hz, spread)
                 ELSE Div(probe.sf.hz, spread)
       IN /\ probe.x = [at |-> at, off |-> -QHitHalfWidth]
          /\ answer.q = probe.sf.q
          /\ answer = probe.sf
  /\ (/\ probe.op = "qDrag"
      /\ probe.sf.q = Num(2)
      /\ probe.d = 1
      /\ probe.f = Num(2000)) => answer.q = Num(1)

\* The left handle of {hz: 1000, q: 2} sits at 666.67 Hz and maps back to q = 2.
C8_Witness ==
  /\ probe.op = "qRoundTrip"
  /\ probe.sf.hz = Num(1000)
  /\ probe.sf.q = Num(2)
  /\ probe.d = 0
  /\ probe.x.at = Rat(2000, 3)
  /\ answer.q = Num(2)

RECURSIVE SumOfGains(_, _, _)
SumOfGains(S, fs, freq) ==
  IF S = {} THEN Exact(Num(0))
  ELSE LET i == CHOOSE j \in S : \A k \in S : j >= k
       IN GainAdd(getFilterGain(fs[i], freq), SumOfGains(S \ {i}, fs, freq))

\* C9: the total gain at a frequency is the sum of getFilterGain over all the
\* filters of the array: 0 for the empty array, and the same for every order
\* of the filters.
C9_TotalIsSum ==
  probe.op = "getTotalGain" =>
    /\ answer = SumOfGains(DOMAIN probe.fs, probe.fs, probe.freq)
    /\ probe.fs = <<>> => answer = Exact(Num(0))
    /\ \A p \in Permutations(DOMAIN probe.fs) :
         getTotalGain([i \in DOMAIN probe.fs |-> probe.fs[p[i]]], probe.freq)
           = answer

\* 6 dB and 6 dB of two peaks and 4 dB of a shelf at their center add to 16 dB.
C9_Witness ==
  /\ probe.op = "getTotalGain"
  /\ probe.fs = << Peaking(Num(1000), Num(6), Num(1)),
                   [id |-> 3, type |-> "high-shelf", hz |-> Num(1000),
                    db |-> Num(8), q |-> Rat(707, 1000)],
                   Peaking(Num(1000), Num(6), Num(1)) >>
  /\ probe.freq = Num(1000)
  /\ answer = Exact(Num(16))

\* C10: for a peaking filter with q > 0 the gain at its center frequency is
\* db, larger for a larger db, and the gain k octaves away from the center is
\* db / (1 + 4x^2) with x = k * q.
C10_PeakingGain ==
  (/\ probe.op = "getFilterGain"
   /\ probe.filter.type = "peaking"
   /\ Lt(Num(0), probe.filter.q)) =>
    LET f == probe.filter
        ratio == Div(probe.freq, f.hz)
    IN /\ probe.freq = f.hz =>
            /\ answer = Exact(f.db)
            /\ \A db2 \in ProbeDbs :
                 Lt(f.db, db2) =>
                   /\ getFilterGain([f EXCEPT !.db = db2], f.hz).s = EmptyBag
                   /\ Lt(answer.r, getFilterGain([f EXCEPT !.db = db2], f.hz).r)
       /\ HasExactLog(2, ratio) =>
            LET x == Mul(Num(ExactLog(2, ratio)), f.q)
            IN answer = Exact(Div(f.db, Add(Num(1), Mul(Num(4), Mul(x, x)))))

\* {hz: 1000, db: 6, q: 1} has gain 1.2 at 2000 Hz.
C10_Witness ==
  /\ probe.op = "getFilterGain"
  /\ probe.filter = Peaking(Num(1000), Num(6), Num(1))
  /\ probe.freq = Num(2000)
  /\ answer = Exact(Rat(6, 5))

\* C11: for a low-shelf and for a high-shelf filter the gain at the center
\* frequency is db * 0.5, whatever q is; this is the gain the main handle
\* shows for a shelf, so the row of the main handle is the row of that gain.
C11_ShelfCenterGain ==
  (/\ probe.op = "getFilterGain"
   /\ probe.filter.type \in {"low-shelf", "high-shelf"}
   /\ probe.freq = probe.filter.hz) =>
    /\ answer = Exact(Mul(probe.filter.db, Rat(1, 2)))
    /\ answer = Exact(handleYValue(probe.filter))
    /\ Lt(Num(0), probe.filter.q) =>
         updateHandles(probe.filter).cy = yScale(answer.r)

\* Low-shelf {hz: 100, db: 6, q: 0.707} has gain 3 at 100 Hz, and the handle
\* is on the row of 3 dB.
C11_Witness ==
  /\ probe.op = "getFilterGain"
  /\ probe.filter = [id |-> 2, type |-> "low-shelf", hz |-> Num(100),
                     db |-> Num(6), q |-> Rat(707, 1000)]
  /\ probe.freq = Num(100)
  /\ answer = Exact(Num(3))
  /\ updateHandles(probe.filter).cy = yScale(Num(3))

\* C12: getFilterGain gives 0 for a peaking filter with q <= 0 at every
\* frequency, and 0 for a filter whose type is none of peaking, low-shelf,
\* high-shelf, custom.
C12_DegenerateInputs ==
  probe.op = "getFilterGain" =>
    /\ (probe.filter.type = "peaking" /\ Le(probe.filter.q, Num(0))) =>
         answer = Exact(Num(0))
    /\ probe.filter.type \notin {"peaking", "low-shelf", "high-shelf", "custom"} =>
         answer = Exact(Num(0))

\* Peaking {hz: 1000, db: 6, q: 0} has gain 0 an octave above its center.
C12_Witness ==
  /\ probe.op = "getFilterGain"
  /\ probe.filter = Peaking(Num(1000), Num(6), Num(0))
  /\ probe.freq = Num(2000)
  /\ answer = Exact(Num(0))

====
